---- MODULE Spec2Model ----
(***************************************************************************)
(* Model of rag_service.py: the /search, /ready and /health handlers, the  *)
(* lock-guarded lazy Milvus singleton (get_collection) and the request     *)
(* checks (auth, require_env, text validation, top_k clamping).            *)
(*                                                                         *)
(* Strings are run-length encoded: a string is a sequence of runs          *)
(* [c |-> character, n |-> repetitions], adjacent runs having different    *)
(* characters, so that a 2000-character text is one run.                   *)
(***************************************************************************)
EXTENDS Integers, Sequences, FiniteSets, TLC

\* ---------------------------------------------------------------- bounds
NThreads == 2
MaxReqs == 3

Threads == 1..NThreads

\* ------------------------------------------------------ program constants
MaxTextLen == 2000
MinTopK == 1
MaxTopK == 30

\* --------------------------------------------------------------- strings
Run(c, n) == [c |-> c, n |-> n]

\* The characters str.strip() removes (those for which str.isspace() holds):
\* space, \t, \n, \r, \f, then U+000B, U+001C..U+001F, U+0085, U+00A0 and
\* U+1680 written as themselves.  The remaining ones (U+2000..U+200A, U+2028,
\* U+2029, U+202F, U+205F, U+3000) cannot be written in a string of this
\* module, so no text of the model contains them.
Whitespace == {" ", "\t", "\n", "\r", "\f",
               "", "", "", "", "", "", " ", " "}

IsSpace(c) == c \in Whitespace

RECURSIVE StrLen(_)
StrLen(s) == IF s = << >> THEN 0 ELSE Head(s).n + StrLen(Tail(s))

RECURSIVE LStrip(_)
LStrip(s) ==
    IF s = << >> THEN << >>
    ELSE IF IsSpace(Head(s).c) THEN LStrip(Tail(s))
    ELSE s

RECURSIVE RStrip(_)
RStrip(s) ==
    IF s = << >> THEN << >>
    ELSE IF IsSpace(s[Len(s)].c) THEN RStrip(SubSeq(s, 1, Len(s) - 1))
    ELSE s

Strip(s) == RStrip(LStrip(s))

Blank == << >>
Secret == <<Run("k", 6)>>
Wrong == <<Run("w", 5)>>

\* Optional[str]: the header value, None when the header is missing.
NoneStr == [some |-> FALSE, val |-> Blank]
Some(s) == [some |-> TRUE, val |-> s]

\* ----------------------------------------------------- environment values
EnvUri == {Blank, <<Run(" ", 2)>>, <<Run(" ", 1), Run("u", 4)>>}
EnvToken == {Blank, <<Run("t", 4), Run("\r", 1), Run("\n", 1)>>}
EnvApiKey == {Blank, <<Run(" ", 1)>>, <<Run("k", 6), Run("\n", 1)>>}
EmbedderStates == {"None", "model"}

\* EMBED_ERR: None, or str(e) of the exception TextEmbedding() raised.
NoErr == [some |-> FALSE, val |-> ""]
ErrText(e) == [some |-> TRUE, val |-> e]
EmbedErrs == {"boom", ""}

\* ------------------------------------------------------- request inputs
Keys == {NoneStr, Some(Blank), Some(Secret), Some(Wrong)}

Texts == {Blank,
          <<Run(" ", 1), Run("\n", 1), Run("", 1)>>,
          <<Run("\r", 1), Run("a", 1), Run("b", 1), Run("\t", 1)>>,
          <<Run("a", 2000)>>,
          <<Run(" ", 1), Run("a", 2000), Run(" ", 1)>>,
          <<Run("a", 2001)>>,
          <<Run("a", 1000), Run(" ", 1), Run("b", 1000)>>}

TopKs == {-5, 0, 1, 30, 31, 1000}

\* Inputs of requests issued while several threads run concurrently.
KeysConc == {Some(Secret), Some(Wrong)}
TextsConc == {<<Run("b", 3)>>}
TopKsConc == {1, 1000}

VARIABLES
    MILVUS_URI, MILVUS_TOKEN, RAG_API_KEY, embedder, EMBED_ERR,
    _milvus_lock, _col, _connected,
    handles, loaded, connectCalls, loadCalls, initFailed, nreq,
    pc, req, loc, resp, trace

config == <<MILVUS_URI, MILVUS_TOKEN, RAG_API_KEY, embedder, EMBED_ERR>>
conn == <<_col, _connected>>
downstream == <<handles, loaded, connectCalls, loadCalls>>
vars == <<MILVUS_URI, MILVUS_TOKEN, RAG_API_KEY, embedder, EMBED_ERR,
          _milvus_lock, _col, _connected,
          handles, loaded, connectCalls, loadCalls, initFailed, nreq,
          pc, req, loc, resp, trace>>

\* ---------------------------------------------------------------- values
NoCol == 0
Unlocked == 0

NoReq == [kind |-> "none", key |-> NoneStr, text |-> Blank, top_k |-> 0]
NoLoc == [q |-> Blank, top_k |-> 0, vec |-> << >>, col |-> NoCol, limit |-> 0,
          lockHeld |-> FALSE]
NoResp == [status |-> 0, detail |-> "", cause |-> "", hits |-> << >>]

HTTPException(code, msg) == [status |-> code, detail |-> msg, cause |-> "", hits |-> << >>]
\* detail=f"...: {e}": the message of the caught exception follows the prefix
Wrapped(msg, e) == [status |-> 500, detail |-> msg, cause |-> e, hits |-> << >>]
Ok == [status |-> 200, detail |-> "", cause |-> "", hits |-> << >>]
Hits(h) == [status |-> 200, detail |-> "", cause |-> "", hits |-> h]

\* ------------------------------------------------------- request checks
\* line 39: EMBED_ERR or 'unknown'
OrUnknown(e) == IF e.some /\ e.val # "" THEN e.val ELSE "unknown"

\* require_env without the embedder check of lines 38-39.
require_envNoEmbedder ==
    IF MILVUS_URI = Blank \/ MILVUS_TOKEN = Blank
    THEN HTTPException(500, "Missing MILVUS_URI or MILVUS_TOKEN")
    ELSE IF RAG_API_KEY = Blank
    THEN HTTPException(500, "Server missing RAG_API_KEY")
    ELSE Ok

\* require_env without the RAG_API_KEY check of lines 40-41.
require_envNoKey ==
    IF MILVUS_URI = Blank \/ MILVUS_TOKEN = Blank
    THEN HTTPException(500, "Missing MILVUS_URI or MILVUS_TOKEN")
    ELSE IF embedder = "None"
    THEN Wrapped("Embedding model failed to load", OrUnknown(EMBED_ERR))
    ELSE Ok

require_env ==
    IF MILVUS_URI = Blank \/ MILVUS_TOKEN = Blank
    THEN HTTPException(500, "Missing MILVUS_URI or MILVUS_TOKEN")
    ELSE IF embedder = "None"
    THEN Wrapped("Embedding model failed to load", OrUnknown(EMBED_ERR))
    ELSE IF RAG_API_KEY = Blank
    THEN HTTPException(500, "Server missing RAG_API_KEY")
    ELSE Ok

auth(x_api_key) ==
    IF ~(x_api_key.some /\ x_api_key.val = RAG_API_KEY)
    THEN HTTPException(401, "Unauthorized")
    ELSE Ok

Min2(a, b) == IF a < b THEN a ELSE b
Max2(a, b) == IF a > b THEN a ELSE b

\* Clamp that forgets the lower bound.
ClampTopKNoFloor(k) == Min2(k, MaxTopK)

ClampTopK(k) == Max2(MinTopK, Min2(k, MaxTopK))

\* Length ceiling off by one: a text of exactly MaxTextLen is rejected.
ValidateTextOffByOne(q) ==
    IF q = Blank THEN HTTPException(400, "Missing text")
    ELSE IF StrLen(q) >= MaxTextLen THEN HTTPException(413, "Query too long")
    ELSE Ok

ValidateText(q) ==
    IF q = Blank THEN HTTPException(400, "Missing text")
    ELSE IF StrLen(q) > MaxTextLen THEN HTTPException(413, "Query too long")
    ELSE Ok

\* Prelude that checks the configuration before the key.
SearchPreludeEnvFirst(x_api_key, text) ==
    IF require_env.status # 200 THEN require_env
    ELSE IF auth(x_api_key).status # 200 THEN auth(x_api_key)
    ELSE ValidateText(Strip(text))

\* Prelude that validates the text before it checks the configuration.
SearchPreludeTextFirst(x_api_key, text) ==
    IF auth(x_api_key).status # 200 THEN auth(x_api_key)
    ELSE IF ValidateText(Strip(text)).status # 200 THEN ValidateText(Strip(text))
    ELSE require_env

\* The part of search() that runs before the first downstream call.
SearchPrelude(x_api_key, text) ==
    IF auth(x_api_key).status # 200 THEN auth(x_api_key)
    ELSE IF require_env.status # 200 THEN require_env
    ELSE ValidateText(Strip(text))

\* ------------------------------------------------- downstream black boxes
\* Deterministic embedder: the vector depends on the query text only.
Embed(q) == <<StrLen(q) % 2, Len(q) % 2>>

Row(score, doc, title, ci, text) ==
    [score |-> score, doc_id |-> doc, title |-> title, chunk_index |-> ci, text |-> text]

\* chunk_index as stored: an integer-valued field, or missing (None).
IntField(i) == [isNone |-> FALSE, v |-> i]
NoneField == [isNone |-> TRUE, v |-> 0]

\* Deterministic index: stored rows in descending similarity to vec.
Ranked(vec) ==
    IF vec[1] = 1
    THEN <<Row(93, "d1", "t1", IntField(0), "x"),
           Row(71, "d2", "t2", IntField(4), "y"),
           Row(40, "d1", "t1", IntField(1), "z")>>
    ELSE IF vec[2] = 1
    THEN <<Row(88, "d2", "t2", IntField(4), "y"),
           Row(52, "d3", "t3", IntField(2), "w")>>
    ELSE <<Row(90, "d3", "t3", IntField(2), "w"),
           Row(35, "d4", "t4", NoneField, "v")>>

IndexSearch(vec, limit) == SubSeq(Ranked(vec), 1, Min2(limit, Len(Ranked(vec))))

\* -------------------------------------------------------- hit shaping
ShapeHit(h) ==
    [score |-> h.score, doc_id |-> h.doc_id, title |-> h.title,
     chunk_index |-> h.chunk_index.v, text |-> h.text]

\* int(None) raises TypeError
ShapeRaises(res) == \E i \in 1..Len(res) : res[i].chunk_index.isNone

\* Shaping that returns the hits in the opposite order.
ShapeHitsReversed(res) == [i \in 1..Len(res) |-> ShapeHit(res[Len(res) + 1 - i])]

ShapeHits(res) == [i \in 1..Len(res) |-> ShapeHit(res[i])]

\* ---------------------------------------------------------------- state
Init ==
    /\ MILVUS_URI \in {Strip(e) : e \in EnvUri}
    /\ MILVUS_TOKEN \in {Strip(e) : e \in EnvToken}
    /\ RAG_API_KEY \in {Strip(e) : e \in EnvApiKey}
    /\ embedder \in EmbedderStates
    /\ EMBED_ERR \in IF embedder = "None" THEN {ErrText(e) : e \in EmbedErrs}
                                           ELSE {NoErr}
    /\ _milvus_lock = Unlocked
    /\ _col = NoCol
    /\ _connected = FALSE
    /\ handles = 0
    /\ loaded = {}
    /\ connectCalls = 0
    /\ loadCalls = 0
    /\ initFailed = FALSE
    /\ nreq = 0
    /\ pc = [t \in Threads |-> "idle"]
    /\ req = [t \in Threads |-> NoReq]
    /\ loc = [t \in Threads |-> NoLoc]
    /\ resp = [t \in Threads |-> NoResp]
    /\ trace = [t \in Threads |-> << >>]

CanStart(t) == pc[t] \in {"idle", "done"} /\ nreq < MaxReqs

Finish(t, r) ==
    /\ pc' = [pc EXCEPT ![t] = "done"]
    /\ resp' = [resp EXCEPT ![t] = r]

\* ------------------------------------------------------------- handlers
\* Liveness probe that runs the configuration check of /ready.
healthChecked(t) ==
    /\ CanStart(t)
    /\ nreq' = nreq + 1
    /\ req' = [req EXCEPT ![t] = [NoReq EXCEPT !.kind = "health"]]
    /\ loc' = [loc EXCEPT ![t] = [NoLoc EXCEPT !.lockHeld = (_milvus_lock # Unlocked)]]
    /\ trace' = [trace EXCEPT ![t] = << >>]
    /\ Finish(t, require_env)
    /\ UNCHANGED <<config, _milvus_lock, conn, downstream, initFailed>>

\* lines 66-74
health(t) ==
    /\ CanStart(t)
    /\ nreq' = nreq + 1
    /\ req' = [req EXCEPT ![t] = [NoReq EXCEPT !.kind = "health"]]
    /\ loc' = [loc EXCEPT ![t] = [NoLoc EXCEPT !.lockHeld = (_milvus_lock # Unlocked)]]
    /\ trace' = [trace EXCEPT ![t] = << >>]
    /\ Finish(t, Ok)
    /\ UNCHANGED <<config, _milvus_lock, conn, downstream, initFailed>>

\* lines 76-78
health_head(t) ==
    /\ CanStart(t)
    /\ nreq' = nreq + 1
    /\ req' = [req EXCEPT ![t] = [NoReq EXCEPT !.kind = "health_head"]]
    /\ loc' = [loc EXCEPT ![t] = NoLoc]
    /\ trace' = [trace EXCEPT ![t] = << >>]
    /\ Finish(t, Ok)
    /\ UNCHANGED <<config, _milvus_lock, conn, downstream, initFailed>>

\* Readiness probe that also requires the index connection to be open.
readyConnected(t) ==
    /\ CanStart(t)
    /\ nreq' = nreq + 1
    /\ req' = [req EXCEPT ![t] = [NoReq EXCEPT !.kind = "ready"]]
    /\ loc' = [loc EXCEPT ![t] = NoLoc]
    /\ trace' = [trace EXCEPT ![t] = << >>]
    /\ Finish(t, IF require_env.status = 200 /\ ~_connected
                 THEN HTTPException(500, "Milvus not connected")
                 ELSE require_env)
    /\ UNCHANGED <<config, _milvus_lock, conn, downstream, initFailed>>

\* lines 80-84
ready(t) ==
    /\ CanStart(t)
    /\ nreq' = nreq + 1
    /\ req' = [req EXCEPT ![t] = [NoReq EXCEPT !.kind = "ready"]]
    /\ loc' = [loc EXCEPT ![t] = NoLoc]
    /\ trace' = [trace EXCEPT ![t] = << >>]
    /\ Finish(t, require_env)
    /\ UNCHANGED <<config, _milvus_lock, conn, downstream, initFailed>>

\* search(), lines 88-97: auth, require_env, strip, validation, clamp.
search(t, x_api_key, text, top_k) ==
    /\ CanStart(t)
    /\ nreq' = nreq + 1
    /\ req' = [req EXCEPT ![t] =
                [kind |-> "search", key |-> x_api_key, text |-> text, top_k |-> top_k]]
    /\ trace' = [trace EXCEPT ![t] = << >>]
    /\ LET r == SearchPrelude(x_api_key, text) IN
         IF r.status # 200
         THEN /\ Finish(t, r)
              /\ loc' = [loc EXCEPT ![t] = NoLoc]
         ELSE /\ pc' = [pc EXCEPT ![t] = "embed"]
              /\ resp' = [resp EXCEPT ![t] = NoResp]
              /\ loc' = [loc EXCEPT ![t] =
                          [NoLoc EXCEPT !.q = Strip(text), !.top_k = ClampTopK(top_k)]]
    /\ UNCHANGED <<config, _milvus_lock, conn, downstream, initFailed>>

\* line 100: vec = next(embedder.embed([q])).tolist()
EmbedOk(t) ==
    /\ pc[t] = "embed"
    /\ embedder # "None"
    /\ trace' = [trace EXCEPT ![t] = Append(@, "embed")]
    /\ loc' = [loc EXCEPT ![t].vec = Embed(loc[t].q)]
    /\ pc' = [pc EXCEPT ![t] = "lock"]
    /\ UNCHANGED <<config, _milvus_lock, conn, downstream, initFailed, nreq, req, resp>>

\* One try block around embedding and search: an embedding failure is
\* reported with the index prefix.
EmbedFailAsIndexError(t) ==
    /\ pc[t] = "embed"
    /\ trace' = [trace EXCEPT ![t] = Append(@, "embed")]
    /\ Finish(t, Wrapped("Milvus search failed", "embed error"))
    /\ UNCHANGED <<config, _milvus_lock, conn, downstream, initFailed, nreq, req, loc>>

\* lines 101-102
EmbedFail(t) ==
    /\ pc[t] = "embed"
    /\ trace' = [trace EXCEPT ![t] = Append(@, "embed")]
    /\ Finish(t, Wrapped("Embedding failed", "embed error"))
    /\ UNCHANGED <<config, _milvus_lock, conn, downstream, initFailed, nreq, req, loc>>

\* ------------------------------------------------------ get_collection
\* No "if _col is None": the handle is constructed and loaded on every call.
AfterConnectAlwaysCtor == "ctor"

\* line 53, evaluated under the lock
AfterConnect == IF _col = NoCol THEN "ctor" ELSE "ret"

Raise(t, e) == Finish(t, Wrapped("Milvus search failed", e))

\* Acquire without mutual exclusion: the critical section is entered while
\* another thread is inside it.
AcquireNoLock(t) ==
    /\ pc[t] = "lock"
    /\ _milvus_lock' = t
    /\ pc' = [pc EXCEPT ![t] = IF ~_connected THEN "connect" ELSE AfterConnect]
    /\ UNCHANGED <<config, conn, downstream, initFailed, nreq, req, loc, resp, trace>>

\* Fast path that skips the lock once connected, although the handle may
\* still be under construction.
AcquireUnsafeFastPath(t) ==
    /\ pc[t] = "lock"
    /\ _milvus_lock = Unlocked \/ _connected
    /\ _milvus_lock' = t
    /\ pc' = [pc EXCEPT ![t] = IF ~_connected THEN "connect" ELSE AfterConnect]
    /\ UNCHANGED <<config, conn, downstream, initFailed, nreq, req, loc, resp, trace>>

\* lines 49-50: with _milvus_lock; if not _connected
Acquire(t) ==
    /\ pc[t] = "lock"
    /\ _milvus_lock = Unlocked
    /\ _milvus_lock' = t
    /\ pc' = [pc EXCEPT ![t] = IF ~_connected THEN "connect" ELSE AfterConnect]
    /\ UNCHANGED <<config, conn, downstream, initFailed, nreq, req, loc, resp, trace>>

\* Connect that forgets to set _connected.
ConnectOkNoFlag(t) ==
    /\ pc[t] = "connect"
    /\ trace' = [trace EXCEPT ![t] = Append(@, "connect")]
    /\ connectCalls' = connectCalls + 1
    /\ pc' = [pc EXCEPT ![t] = AfterConnect]
    /\ UNCHANGED <<config, _milvus_lock, conn, handles, loaded, loadCalls, initFailed,
                   nreq, req, loc, resp>>

\* lines 51-52
ConnectOk(t) ==
    /\ pc[t] = "connect"
    /\ trace' = [trace EXCEPT ![t] = Append(@, "connect")]
    /\ connectCalls' = connectCalls + 1
    /\ _connected' = TRUE
    /\ pc' = [pc EXCEPT ![t] = AfterConnect]
    /\ UNCHANGED <<config, _milvus_lock, _col, handles, loaded, loadCalls, initFailed,
                   nreq, req, loc, resp>>

\* Connect wrapped in a retry: the first failure of a request is followed by
\* a second attempt within the same request.
ConnectFailRetryOnce(t) ==
    /\ pc[t] = "connect"
    /\ trace' = [trace EXCEPT ![t] = Append(@, "connect")]
    /\ connectCalls' = connectCalls + 1
    /\ IF \E i \in 1..Len(trace[t]) : trace[t][i] = "connect"
       THEN /\ _milvus_lock' = Unlocked
            /\ Raise(t, "connect error")
            /\ initFailed' = TRUE
       ELSE UNCHANGED <<_milvus_lock, pc, resp, initFailed>>
    /\ UNCHANGED <<config, conn, handles, loaded, loadCalls, nreq, req, loc>>

\* line 51 raises: the with-block releases the lock, search() wraps the error
ConnectFail(t) ==
    /\ pc[t] = "connect"
    /\ trace' = [trace EXCEPT ![t] = Append(@, "connect")]
    /\ connectCalls' = connectCalls + 1
    /\ _milvus_lock' = Unlocked
    /\ Raise(t, "connect error")
    /\ initFailed' = TRUE
    /\ UNCHANGED <<config, conn, handles, loaded, loadCalls, nreq, req, loc>>

\* line 54: _col = Collection(MILVUS_COLLECTION)
CtorOk(t) ==
    /\ pc[t] = "ctor"
    /\ trace' = [trace EXCEPT ![t] = Append(@, "ctor")]
    /\ handles' = handles + 1
    /\ _col' = handles + 1
    /\ pc' = [pc EXCEPT ![t] = "load"]
    /\ UNCHANGED <<config, _milvus_lock, _connected, loaded, connectCalls, loadCalls,
                   initFailed, nreq, req, loc, resp>>

\* line 54 raises before the assignment
CtorFail(t) ==
    /\ pc[t] = "ctor"
    /\ trace' = [trace EXCEPT ![t] = Append(@, "ctor")]
    /\ _milvus_lock' = Unlocked
    /\ Raise(t, "ctor error")
    /\ initFailed' = TRUE
    /\ UNCHANGED <<config, conn, downstream, nreq, req, loc>>

\* line 55: _col.load()
LoadOk(t) ==
    /\ pc[t] = "load"
    /\ trace' = [trace EXCEPT ![t] = Append(@, "load")]
    /\ loadCalls' = loadCalls + 1
    /\ loaded' = loaded \cup {_col}
    /\ pc' = [pc EXCEPT ![t] = "ret"]
    /\ UNCHANGED <<config, _milvus_lock, conn, handles, connectCalls, initFailed,
                   nreq, req, loc, resp>>

\* Lock taken with acquire() and released only on the normal path: a failed
\* load leaves it held.
LoadFailKeepLock(t) ==
    /\ pc[t] = "load"
    /\ trace' = [trace EXCEPT ![t] = Append(@, "load")]
    /\ loadCalls' = loadCalls + 1
    /\ Raise(t, "load error")
    /\ initFailed' = TRUE
    /\ UNCHANGED <<config, _milvus_lock, conn, handles, loaded, connectCalls, nreq, req, loc>>

\* line 55 raises: _col keeps the handle assigned on line 54
LoadFail(t) ==
    /\ pc[t] = "load"
    /\ trace' = [trace EXCEPT ![t] = Append(@, "load")]
    /\ loadCalls' = loadCalls + 1
    /\ _milvus_lock' = Unlocked
    /\ Raise(t, "load error")
    /\ initFailed' = TRUE
    /\ UNCHANGED <<config, conn, handles, loaded, connectCalls, nreq, req, loc>>

\* Return that leaves the lock held while the caller searches.
ReturnKeepLock(t) ==
    /\ pc[t] = "ret"
    /\ loc' = [loc EXCEPT ![t].col = _col]
    /\ pc' = [pc EXCEPT ![t] = "search"]
    /\ UNCHANGED <<config, _milvus_lock, conn, downstream, initFailed, nreq, req, resp,
                   trace>>

\* line 56 and line 105: return _col, leaving the with-block
Return(t) ==
    /\ pc[t] = "ret"
    /\ loc' = [loc EXCEPT ![t].col = _col]
    /\ _milvus_lock' = Unlocked
    /\ pc' = [pc EXCEPT ![t] = "search"]
    /\ UNCHANGED <<config, conn, downstream, initFailed, nreq, req, resp, trace>>

\* Search on a collection whose load was started but not awaited by the
\* request that loaded it: that request sees no rows yet.
SearchOkLoadNotAwaited(t) ==
    /\ pc[t] = "search"
    /\ trace' = [trace EXCEPT ![t] = Append(@, "search")]
    /\ LET res == IF \E i \in 1..Len(trace[t]) : trace[t][i] = "load"
                  THEN << >>
                  ELSE IndexSearch(loc[t].vec, loc[t].top_k) IN
         IF ShapeRaises(res)
         THEN Raise(t, "int(None)")
         ELSE Finish(t, Hits(ShapeHits(res)))
    /\ loc' = [loc EXCEPT ![t].limit = loc[t].top_k]
    /\ UNCHANGED <<config, _milvus_lock, conn, downstream, initFailed, nreq, req>>

\* lines 106-124: col.search(...) returns, hits are shaped
SearchOk(t) ==
    /\ pc[t] = "search"
    /\ trace' = [trace EXCEPT ![t] = Append(@, "search")]
    /\ LET res == IndexSearch(loc[t].vec, loc[t].top_k) IN
         IF ShapeRaises(res)
         THEN Raise(t, "int(None)")
         ELSE Finish(t, Hits(ShapeHits(res)))
    /\ loc' = [loc EXCEPT ![t].limit = loc[t].top_k]
    /\ UNCHANGED <<config, _milvus_lock, conn, downstream, initFailed, nreq, req>>

\* lines 106-112 raise
SearchFail(t) ==
    /\ pc[t] = "search"
    /\ trace' = [trace EXCEPT ![t] = Append(@, "search")]
    /\ Raise(t, "search error")
    /\ loc' = [loc EXCEPT ![t].limit = loc[t].top_k]
    /\ UNCHANGED <<config, _milvus_lock, conn, downstream, initFailed, nreq, req>>

\* ------------------------------------------------------- specification
Step(t) ==
    \/ EmbedOk(t) \/ EmbedFail(t)
    \/ Acquire(t)
    \/ ConnectOk(t) \/ ConnectFail(t)
    \/ CtorOk(t) \/ CtorFail(t)
    \/ LoadOk(t) \/ LoadFail(t)
    \/ Return(t)
    \/ SearchOk(t) \/ SearchFail(t)

Next ==
    \/ \E t \in Threads : health(t)
    \/ \E t \in Threads : health_head(t)
    \/ \E t \in Threads : ready(t)
    \/ \E t \in Threads : \E k \in KeysConc, x \in TextsConc, n \in TopKsConc :
           search(t, k, x, n)
    \/ \E t \in Threads : Step(t)

Spec == Init /\ [][Next]_vars

\* One thread serving requests one after the other, over the full input sets.
SeqThread == CHOOSE t \in Threads : \A u \in Threads : t <= u

NextSeq ==
    \/ health(SeqThread)
    \/ health_head(SeqThread)
    \/ ready(SeqThread)
    \/ \E k \in Keys, x \in Texts, n \in TopKs : search(SeqThread, k, x, n)
    \/ Step(SeqThread)

SpecSeq == Init /\ [][NextSeq]_vars

\* Every thread that can take a step of its request eventually takes one:
\* downstream calls return or raise, and a free lock is eventually taken.
Fairness == \A t \in Threads : WF_vars(Step(t))

\* The /search requests alone, which are the ones that use the lock.
NextSearch ==
    \/ \E t \in Threads : \E k \in KeysConc, x \in TextsConc, n \in TopKsConc :
           search(t, k, x, n)
    \/ \E t \in Threads : Step(t)

SpecFair == Init /\ [][NextSearch]_vars /\ Fairness

\* ------------------------------------------------------------ properties
InitOps == {"connect", "ctor", "load"}

HasHandle(t) == loc[t].col # NoCol

Called(t, op) == \E i \in 1..Len(trace[t]) : trace[t][i] = op

\* C1: on a process started cold, as long as no connect, handle construction
\* or load has failed, connect and load have each been executed at most
\* once in total, exactly once as soon as any caller holds a handle, and
\* every caller that received a handle holds the one cached handle.
C1_SingleInit ==
    (~initFailed) =>
        /\ connectCalls <= 1
        /\ loadCalls <= 1
        /\ handles <= 1
        /\ \A t \in Threads : HasHandle(t) =>
              /\ connectCalls = 1
              /\ loadCalls = 1
              /\ loc[t].col = _col
        /\ \A t, u \in Threads : HasHandle(t) /\ HasHandle(u) => loc[t].col = loc[u].col

\* Every thread is in a request that went through get_collection on the
\* cold process at the same time and is about to search on the shared handle.
C1_Witness ==
    /\ ~initFailed
    /\ connectCalls = 1
    /\ loadCalls = 1
    /\ \A t \in Threads : pc[t] = "search" /\ loc[t].col = _col /\ _col # NoCol

\* A request failed inside get_collection: its last downstream call was
\* connect, handle construction or load.
FailedIn(t, op) ==
    /\ pc[t] = "done"
    /\ trace[t] # << >>
    /\ trace[t][Len(trace[t])] = op

\* C2: a failure of connect, handle construction or load is answered with an
\* error, and the manager state stays before the failing step: without a
\* successful connect the state is not connected, and outside the critical
\* section a handle is cached only if its load succeeded, so that the next
\* call loads before it returns a handle.
C2_RetryFailedStep ==
    /\ \A t \in Threads : \A op \in InitOps :
          FailedIn(t, op) => resp[t].status = 500
    /\ (connectCalls = 0) => ~_connected
    /\ (_milvus_lock = Unlocked /\ _col # NoCol) => _col \in loaded

\* ----------------------------------------------- request-level vocabulary
IsSearch(t) == req[t].kind = "search"

KeyMatches(t) == req[t].key.some /\ req[t].key.val = RAG_API_KEY

ConfigComplete ==
    /\ MILVUS_URI # Blank
    /\ MILVUS_TOKEN # Blank
    /\ embedder # "None"
    /\ RAG_API_KEY # Blank

\* The request was answered before any downstream call.
Rejected(t, code) ==
    /\ pc[t] = "done"
    /\ resp[t].status = code
    /\ trace[t] = << >>
    /\ ~HasHandle(t)

\* This step is thread t receiving a new request.
Started(t) ==
    /\ nreq' = nreq + 1
    /\ pc[t] \in {"idle", "done"}
    /\ \A u \in Threads \ {t} :
          /\ pc'[u] = pc[u]
          /\ req'[u] = req[u]
          /\ resp'[u] = resp[u]

IndexUntouched == UNCHANGED <<_milvus_lock, _col, _connected, handles, loaded,
                              connectCalls, loadCalls>>

AllSpace(s) == \A i \in 1..Len(s) : IsSpace(s[i].c)

\* Number of characters between the first and the last non-blank character.
TrimmedLen(s) ==
    IF AllSpace(s) THEN 0
    ELSE LET ink == {i \in 1..Len(s) : ~IsSpace(s[i].c)}
             lo == CHOOSE i \in ink : \A j \in ink : i <= j
             hi == CHOOSE i \in ink : \A j \in ink : j <= i
         IN StrLen(SubSeq(s, lo, hi))

\* C3: a search request whose presented key (or missing header) differs
\* from the configured key is answered 401 without any downstream call,
\* whatever its body and the configuration, and the step that receives it
\* leaves the lock, the connection state and the index untouched.
C3_WrongKeyState ==
    \A t \in Threads : (IsSearch(t) /\ ~KeyMatches(t)) => Rejected(t, 401)

C3_WrongKeyFrame ==
    \A t \in Threads :
        (Started(t) /\ IsSearch(t)' /\ ~KeyMatches(t)') => IndexUntouched

C3_WrongKey401 == []C3_WrongKeyState /\ [][C3_WrongKeyFrame]_vars

\* A wrong key on a misconfigured service, with a valid body: 401.
C3_Witness ==
    \E t \in Threads :
        /\ IsSearch(t)
        /\ req[t].key = Some(Wrong)
        /\ ~ConfigComplete
        /\ TrimmedLen(req[t].text) \in 1..MaxTextLen
        /\ Rejected(t, 401)

\* C4: with a blank configured key every search request ends 401 or 500
\* without any downstream call, whatever key it presents, and /ready
\* answers 500.
C4_BlankKeyRejectsAll ==
    (RAG_API_KEY = Blank) =>
        \A t \in Threads :
            /\ IsSearch(t) => (Rejected(t, 401) \/ Rejected(t, 500))
            /\ req[t].kind = "ready" => resp[t].status = 500

\* Only the key is missing from the configuration and the client presents
\* the empty key, which equals the configured one: 500, not a search.
C4_Witness ==
    \E t \in Threads :
        /\ RAG_API_KEY = Blank
        /\ MILVUS_URI # Blank /\ MILVUS_TOKEN # Blank /\ embedder # "None"
        /\ IsSearch(t)
        /\ req[t].key = Some(Blank)
        /\ TrimmedLen(req[t].text) \in 1..MaxTextLen
        /\ Rejected(t, 500)
        /\ resp[t].detail = "Server missing RAG_API_KEY"

\* C5: an authenticated search on a configured process is answered 400 when
\* the text is blank after trimming and 413 when the trimmed text is longer
\* than 2000 characters, both without any downstream call and leaving the
\* index untouched; a trimmed length of 1..2000 is not rejected.
C5_TextState ==
    \A t \in Threads :
        (IsSearch(t) /\ KeyMatches(t) /\ ConfigComplete) =>
            /\ TrimmedLen(req[t].text) = 0 => Rejected(t, 400)
            /\ TrimmedLen(req[t].text) > 2000 => Rejected(t, 413)
            /\ TrimmedLen(req[t].text) \in 1..2000 =>
                  /\ resp[t].status \notin {400, 413}
                  /\ pc[t] = "done" => trace[t] # << >>

C5_TextFrame ==
    \A t \in Threads :
        (/\ Started(t) /\ IsSearch(t)' /\ KeyMatches(t)' /\ ConfigComplete
         /\ TrimmedLen(req'[t].text) \notin 1..2000) => IndexUntouched

C5_TextValidation == []C5_TextState /\ [][C5_TextFrame]_vars

\* A text of 2001 characters with a blank inside is answered 413 on a
\* process that is already connected.
C5_Witness ==
    \E t \in Threads :
        /\ IsSearch(t) /\ KeyMatches(t) /\ ConfigComplete
        /\ TrimmedLen(req[t].text) = 2001
        /\ \E i \in 1..Len(req[t].text) : IsSpace(req[t].text[i].c)
        /\ Rejected(t, 413)
        /\ _connected

\* The text of exactly 2000 characters after trimming is accepted.
C5_WitnessBoundary ==
    \E t \in Threads :
        /\ IsSearch(t) /\ KeyMatches(t) /\ ConfigComplete
        /\ TrimmedLen(req[t].text) = 2000
        /\ StrLen(req[t].text) > 2000
        /\ resp[t].status = 200

ExpectedLimit(k) == IF k < 1 THEN 1 ELSE IF k > 30 THEN 30 ELSE k

\* C6: the limit passed to the index search is max(1, min(top_k, 30)), lies
\* in 1..30 and bounds the number of hits, and a request that passes the
\* key, configuration and text checks is never answered before its
\* downstream calls, whatever its top_k.
C6_ClampedLimit ==
    \A t \in Threads : IsSearch(t) =>
        /\ Called(t, "search") =>
              /\ loc[t].limit = ExpectedLimit(req[t].top_k)
              /\ loc[t].limit \in 1..30
              /\ Len(resp[t].hits) <= loc[t].limit
        /\ (/\ KeyMatches(t) /\ ConfigComplete
            /\ TrimmedLen(req[t].text) \in 1..2000
            /\ pc[t] = "done") => trace[t] # << >>

\* A negative top_k is served with limit 1 and one hit.
C6_Witness ==
    \E t \in Threads :
        /\ IsSearch(t)
        /\ req[t].top_k < 0
        /\ Called(t, "search")
        /\ loc[t].limit = 1
        /\ resp[t].status = 200
        /\ Len(resp[t].hits) = 1

IsProbe(t) == req[t].kind \in {"health", "health_head"}

\* C7: when the index endpoint or credential is blank or the embedder failed
\* to load, /ready answers 500 and every search presenting the configured
\* key answers 500 without any downstream call; the embedder and the
\* configuration never change after start.
C7_MisconfiguredState ==
    (MILVUS_URI = Blank \/ MILVUS_TOKEN = Blank \/ embedder = "None") =>
        \A t \in Threads :
            /\ req[t].kind = "ready" => resp[t].status = 500
            /\ (IsSearch(t) /\ KeyMatches(t)) => Rejected(t, 500)

C7_NoRetry ==
    /\ embedder' = embedder /\ EMBED_ERR' = EMBED_ERR
    /\ MILVUS_URI' = MILVUS_URI /\ MILVUS_TOKEN' = MILVUS_TOKEN

C7_Misconfigured500 == []C7_MisconfiguredState /\ [][C7_NoRetry]_vars

\* The only defect is the embedder: a search with the right key and a valid
\* body is answered 500 naming the embedding model and the text of the
\* exception its constructor raised.
C7_Witness ==
    \E t \in Threads :
        /\ embedder = "None"
        /\ MILVUS_URI # Blank /\ MILVUS_TOKEN # Blank /\ RAG_API_KEY # Blank
        /\ IsSearch(t) /\ KeyMatches(t)
        /\ TrimmedLen(req[t].text) \in 1..MaxTextLen
        /\ Rejected(t, 500)
        /\ resp[t].detail = "Embedding model failed to load"
        /\ resp[t].cause = "boom"

\* C8: every /health request (GET or HEAD) is answered 200 without any
\* downstream call, whatever the configuration, the embedder and the index
\* state, and a thread free to serve can always take it, also while the
\* lock is held; the step leaves the lock, the connection state and the
\* index untouched.
C8_HealthState ==
    \A t \in Threads :
        /\ IsProbe(t) => Rejected(t, 200)
        /\ CanStart(t) => (ENABLED health(t) /\ ENABLED health_head(t))

C8_HealthFrame ==
    \A t \in Threads : (Started(t) /\ IsProbe(t)') => IndexUntouched

C8_HealthAlways200 == []C8_HealthState /\ [][C8_HealthFrame]_vars

\* /health answered 200 while the lock was held; another thread holds it
\* inside load, after an earlier initialisation attempt had failed.
C8_Witness ==
    \E t, u \in Threads :
        /\ t # u
        /\ req[t].kind = "health"
        /\ Rejected(t, 200)
        /\ loc[t].lockHeld
        /\ _milvus_lock = u
        /\ pc[u] = "load"
        /\ initFailed

\* C9: /ready makes no downstream call and answers 200 exactly when the
\* endpoint, the credential, the key and the embedder are all present,
\* whatever the connection state; the step leaves the lock, the connection
\* state and the index untouched.
C9_ReadyState ==
    \A t \in Threads : req[t].kind = "ready" =>
        /\ pc[t] = "done"
        /\ trace[t] = << >>
        /\ ~HasHandle(t)
        /\ resp[t].status = IF ConfigComplete THEN 200 ELSE 500

C9_ReadyFrame ==
    \A t \in Threads : (Started(t) /\ req'[t].kind = "ready") => IndexUntouched

C9_ReadyConfigOnly == []C9_ReadyState /\ [][C9_ReadyFrame]_vars

\* /ready answered 200 while the index had never been reachable: a connect
\* has failed and the process is still not connected.
C9_Witness ==
    \E t \in Threads :
        /\ req[t].kind = "ready"
        /\ resp[t].status = 200
        /\ connectCalls > 0
        /\ ~_connected
        /\ _milvus_lock = Unlocked
        /\ _col = NoCol

SameInput(t, u) ==
    /\ req[t].key = req[u].key
    /\ req[t].text = req[u].text
    /\ req[t].top_k = req[u].top_k

\* The request ended on a failure of a downstream call.
Injected(t) ==
    resp[t].cause \in {"embed error", "connect error", "ctor error", "load error",
                       "search error"}

\* C10: two answered search requests with the same key and body that both
\* succeeded carry the same ordered hit list, and when neither ended on a
\* failing downstream call they carry the same response altogether,
\* whichever of them connected and loaded.
C10_SameInputSameHits ==
    \A t, u \in Threads :
        (/\ IsSearch(t) /\ IsSearch(u)
         /\ pc[t] = "done" /\ pc[u] = "done"
         /\ SameInput(t, u)) =>
            /\ (resp[t].status = 200 /\ resp[u].status = 200) =>
                  resp[t].hits = resp[u].hits
            /\ (~Injected(t) /\ ~Injected(u)) => resp[t] = resp[u]

\* The first request connected and loaded, the second one found the manager
\* ready; same input, same non-empty list of several hits.
C10_Witness ==
    \E t, u \in Threads :
        /\ t # u
        /\ IsSearch(t) /\ IsSearch(u)
        /\ pc[t] = "done" /\ pc[u] = "done"
        /\ SameInput(t, u)
        /\ Called(t, "connect") /\ Called(t, "load")
        /\ ~Called(u, "connect") /\ ~Called(u, "load")
        /\ Called(u, "search")
        /\ resp[t].status = 200 /\ resp[u].status = 200
        /\ Len(resp[t].hits) > 1
        /\ resp[t].hits = resp[u].hits

\* C11: a search answered 200 carries exactly the rows the index returned
\* for the query vector and the limit, in the index's order: the i-th hit has
\* the score, doc_id, title, chunk_index and text of the i-th row.
C11_HitsAsReturned ==
    \A t \in Threads :
        (IsSearch(t) /\ pc[t] = "done" /\ resp[t].status = 200) =>
            LET res == IndexSearch(loc[t].vec, loc[t].limit) IN
            /\ Len(resp[t].hits) = Len(res)
            /\ \A i \in 1..Len(res) :
                  /\ resp[t].hits[i].score = res[i].score
                  /\ resp[t].hits[i].doc_id = res[i].doc_id
                  /\ resp[t].hits[i].title = res[i].title
                  /\ ~res[i].chunk_index.isNone
                  /\ resp[t].hits[i].chunk_index = res[i].chunk_index.v
                  /\ resp[t].hits[i].text = res[i].text

\* A search answered with two different hits, best score first.
C11_Witness ==
    \E t \in Threads :
        /\ IsSearch(t) /\ pc[t] = "done" /\ resp[t].status = 200
        /\ Len(resp[t].hits) = 2
        /\ resp[t].hits[1].score > resp[t].hits[2].score
        /\ resp[t].hits[1].doc_id # resp[t].hits[2].doc_id

\* C12: a handle returned by get_collection has been loaded successfully.
C12_ReturnedHandleLoaded ==
    \A t \in Threads : HasHandle(t) => loc[t].col \in loaded

ManagerUnchanged == UNCHANGED <<_connected, _col, handles, loaded, connectCalls, loadCalls>>

\* C13: a get_collection call that takes the lock when the manager is
\* connected and has a cached handle goes straight to the return, which
\* hands out that cached handle; neither step makes a downstream call or
\* changes _connected or _col.
C13_CachedState ==
    \A t \in Threads :
        /\ pc[t] = "ret" => (_milvus_lock = t /\ _connected /\ _col # NoCol)
        /\ (HasHandle(t) /\ \A op \in InitOps : ~Called(t, op)) => loc[t].col = _col

C13_CachedFrame ==
    \A t \in Threads :
        /\ (pc[t] = "lock" /\ pc'[t] # "lock" /\ _connected /\ _col # NoCol) =>
              (pc'[t] = "ret" /\ trace'[t] = trace[t] /\ ManagerUnchanged)
        /\ (pc[t] = "ret" /\ pc'[t] # "ret") =>
              /\ pc'[t] = "search"
              /\ loc'[t].col = _col
              /\ trace'[t] = trace[t]
              /\ ManagerUnchanged

C13_ReadyIsIdempotent == []C13_CachedState /\ [][C13_CachedFrame]_vars

\* Two requests in flight at once that both found the manager ready: each
\* holds the cached handle and made no connect, construction or load.
C13_Witness ==
    \E t, u \in Threads :
        /\ t # u
        /\ pc[t] = "search" /\ pc[u] = "search"
        /\ loc[t].col = _col /\ loc[u].col = _col /\ _col # NoCol
        /\ \A op \in InitOps : ~Called(t, op) /\ ~Called(u, op)
        /\ connectCalls = 1 /\ loadCalls = 1

\* C14: a cached handle implies an open connection, and no step resets
\* _connected to false or replaces or clears the cached handle.
C14_ForwardState == (_col # NoCol) => _connected

C14_ForwardStep ==
    /\ _connected => _connected'
    /\ (_col # NoCol) => (_col' = _col)

C14_ForwardOnly == []C14_ForwardState /\ [][C14_ForwardStep]_vars

\* A load has failed and the lock is free again: the connection and the
\* cached handle are still in place.
C14_Witness ==
    /\ initFailed
    /\ _milvus_lock = Unlocked
    /\ _connected
    /\ _col # NoCol
    /\ _col \notin loaded
    /\ \E t \in Threads : FailedIn(t, "load")

InCritical(t) == pc[t] \in {"connect", "ctor", "load", "ret"}

\* C15: at most one thread is inside the connect / construct / load / return
\* section of get_collection, and that thread is the holder of the lock.
C15_MutualExclusion ==
    \A t, u \in Threads :
        /\ InCritical(t) => _milvus_lock = t
        /\ (InCritical(t) /\ InCritical(u)) => t = u

\* After a failed attempt one thread is inside load while another waits for
\* the lock.
C15_Witness ==
    \E t, u \in Threads :
        /\ t # u
        /\ initFailed
        /\ pc[t] = "load"
        /\ pc[u] = "lock"

\* Position of a downstream call in search().
Rank(op) ==
    CASE op = "embed" -> 1
      [] op = "connect" -> 2
      [] op = "ctor" -> 3
      [] op = "load" -> 4
      [] op = "search" -> 5

Last(s) == s[Len(s)]

MisconfiguredDetails == {"Missing MILVUS_URI or MILVUS_TOKEN",
                         "Embedding model failed to load",
                         "Server missing RAG_API_KEY"}

\* C16: search() runs auth, require_env, text validation, embed,
\* get_collection (connect, construct, load) and the index search in this
\* order, and answers with the first failure: a key mismatch gives 401 even
\* when misconfigured, a misconfiguration gives 500 even when the text is
\* invalid, an invalid text is rejected before the embedder runs, the
\* downstream calls happen in rank order starting with embed, and a failed
\* call is the last call of its request.
C16_StepOrder ==
    \A t \in Threads : IsSearch(t) =>
        /\ ~KeyMatches(t) => Rejected(t, 401)
        /\ (KeyMatches(t) /\ ~ConfigComplete) =>
              (Rejected(t, 500) /\ resp[t].detail \in MisconfiguredDetails)
        /\ (KeyMatches(t) /\ ConfigComplete /\ TrimmedLen(req[t].text) = 0) =>
              Rejected(t, 400)
        /\ (KeyMatches(t) /\ ConfigComplete /\ TrimmedLen(req[t].text) > 2000) =>
              Rejected(t, 413)
        /\ trace[t] # << >> => trace[t][1] = "embed"
        /\ \A i, j \in 1..Len(trace[t]) :
              i < j => Rank(trace[t][i]) < Rank(trace[t][j])
        /\ HasHandle(t) => Called(t, "embed")
        /\ Called(t, "search") => HasHandle(t)
        /\ \A op \in {"embed", "connect", "ctor", "load", "search"} :
              (resp[t].cause = op \o " error") =>
                  (pc[t] = "done" /\ resp[t].status = 500 /\ Last(trace[t]) = op)

\* Right key, blank endpoint or credential or no embedder, and a blank text:
\* the answer is the 500 of require_env, not the 400 of the validation.
C16_Witness ==
    \E t \in Threads :
        /\ IsSearch(t) /\ KeyMatches(t)
        /\ ~ConfigComplete
        /\ TrimmedLen(req[t].text) = 0
        /\ Rejected(t, 500)

\* C17: a failed embedding call is answered 500 "Embedding failed" after
\* embed alone, without a handle, and its step leaves the lock, the
\* connection state and the index untouched; a failure of connect,
\* construction, load, search or hit shaping is answered 500 "Milvus search
\* failed"; the two prefixes are never exchanged, and a request that reached
\* the embedder is answered 200 or 500 only.
C17_ErrorState ==
    \A t \in Threads : (IsSearch(t) /\ pc[t] = "done" /\ trace[t] # << >>) =>
        /\ resp[t].status \in {200, 500}
        /\ (Last(trace[t]) = "embed") <=> (resp[t].detail = "Embedding failed")
        /\ (resp[t].detail = "Embedding failed") =>
              /\ resp[t].status = 500
              /\ resp[t].cause = "embed error"
              /\ trace[t] = <<"embed">>
              /\ ~HasHandle(t)
        /\ (Last(trace[t]) # "embed" /\ resp[t].status # 200) <=>
              (resp[t].detail = "Milvus search failed")
        /\ (resp[t].detail = "Milvus search failed") =>
              /\ resp[t].status = 500
              /\ resp[t].cause \in {"connect error", "ctor error", "load error",
                                    "search error", "int(None)"}
              /\ resp[t].cause = "int(None)" => Last(trace[t]) = "search"

C17_ErrorFrame ==
    \A t \in Threads : (pc[t] = "embed" /\ pc'[t] = "done") => IndexUntouched

C17_ErrorKinds == []C17_ErrorState /\ [][C17_ErrorFrame]_vars

\* An embedding failure on a process that is connected and has its handle:
\* answered "Embedding failed", nothing else called.
C17_Witness ==
    \E t \in Threads :
        /\ IsSearch(t) /\ pc[t] = "done"
        /\ resp[t].status = 500
        /\ resp[t].detail = "Embedding failed"
        /\ trace[t] = <<"embed">>
        /\ _connected /\ _col # NoCol /\ _col \in loaded

\* A hit with a missing chunk_index: the shaping failure is reported with
\* the index prefix.
C17_WitnessShaping ==
    \E t \in Threads :
        /\ IsSearch(t) /\ pc[t] = "done"
        /\ resp[t].cause = "int(None)"
        /\ resp[t].detail = "Milvus search failed"

Count(t, op) == Cardinality({i \in 1..Len(trace[t]) : trace[t][i] = op})

\* C18: within one request each of embed, connect, construct, load and
\* search is called at most once; a request that ended on a failing call is
\* finished with 500 and that call is its last; only a request in flight
\* makes downstream calls, one per step.
C18_OnceState ==
    \A t \in Threads :
        /\ \A op \in {"embed", "connect", "ctor", "load", "search"} : Count(t, op) <= 1
        /\ Injected(t) =>
              /\ pc[t] = "done"
              /\ resp[t].status = 500
              /\ resp[t].cause = Last(trace[t]) \o " error"

C18_OnceStep ==
    \A t \in Threads : (trace'[t] # trace[t]) =>
        \/ trace'[t] = << >>
        \/ /\ pc[t] \notin {"idle", "done"}
           /\ Len(trace'[t]) = Len(trace[t]) + 1
           /\ SubSeq(trace'[t], 1, Len(trace[t])) = trace[t]

C18_NoRetryInRequest == []C18_OnceState /\ [][C18_OnceStep]_vars

\* A request ended on a failed connect; a later request attempted the
\* connect again, once.
C18_Witness ==
    \E t, u \in Threads :
        /\ t # u
        /\ FailedIn(t, "connect")
        /\ trace[t] = <<"embed", "connect">>
        /\ Count(u, "connect") = 1
        /\ connectCalls = 2

InFlight(t) == pc[t] \notin {"idle", "done"}

\* C19 as stated: while one thread is inside embed, connect, load or search,
\* every other request in flight can take its next step.
C19_SlowCallBlocksOnlyItself ==
    \A t, u \in Threads :
        (t # u /\ pc[t] \in {"embed", "connect", "load", "search"} /\ InFlight(u)) =>
            ENABLED Step(u)

\* C19, amended: a thread inside embed or search holds no lock, and a
\* request in flight can take its next step unless it waits for the lock
\* while another thread is inside the connect / construct / load section.
C19_OnlyInitBlocks ==
    /\ \A t \in Threads :
          pc[t] \in {"embed", "lock", "search"} => _milvus_lock # t
    /\ \A u \in Threads : InFlight(u) =>
          ((ENABLED Step(u)) <=>
             ~(/\ pc[u] = "lock"
               /\ \E t \in Threads \ {u} : _milvus_lock = t /\ InCritical(t)))

\* One thread is inside the index search while another, waiting at the
\* lock, can go on.
C19_Witness ==
    \E t, u \in Threads :
        /\ t # u
        /\ pc[t] = "search"
        /\ pc[u] = "lock"
        /\ ENABLED Step(u)

\* One thread is inside load while another, waiting at the lock, cannot
\* take any step.
C19_WitnessBlocked ==
    \E t, u \in Threads :
        /\ t # u
        /\ pc[t] = "load"
        /\ pc[u] = "lock"
        /\ ~ENABLED Step(u)

\* C20: the lock is held only by a thread inside the connect / construct /
\* load / return section, so every exit of get_collection, failing or not,
\* has released it; and under fair scheduling every request in flight is
\* eventually answered.
C20_LockState ==
    /\ _milvus_lock \in Threads \cup {Unlocked}
    /\ \A t \in Threads : (_milvus_lock = t) => InCritical(t)

C20_Answered == \A t \in Threads : InFlight(t) ~> (pc[t] = "done")

C20_LockReleasedAndLive == []C20_LockState /\ C20_Answered

\* After a request ended on a failed load, another request took the lock,
\* left get_collection and was answered.
C20_Witness ==
    \E t, u \in Threads :
        /\ t # u
        /\ FailedIn(t, "load")
        /\ _milvus_lock = Unlocked
        /\ pc[u] = "done"
        /\ HasHandle(u)
        /\ Called(u, "search")

====
